---- MODULE Spec2Model ----
(***************************************************************************)
(* ampy command line interface (src/ampy/cli.py).                          *)
(*                                                                         *)
(* One run of the `ampy` process: the cli group opens the board session    *)
(* and registers the exit hook, one command runs against the board, the    *)
(* process shuts down.  Every call the commands make on the board session  *)
(* (ampy.pyboard) and on the remote filesystem layer (ampy.files) is       *)
(* recorded in `log` with its result; a call can succeed or raise.         *)
(***************************************************************************)
EXTENDS Integers, Sequences, FiniteSets, TLC

\* Bounds of the explored inputs of `put`: sub-directories and files of the
\* local folder.
MaxDirs == 2
MaxFiles == 1

DirNames == {"a", "b"}
FileNames == {"f.py", "g.py"}

\* The local path given to put, and the remote argument when it is given.
LocalPath == <<"work", "pkg">>
RemoteArg == <<"lib", "dst">>
None == <<"None">>

Modes == {"SOFT", "NORMAL", "SAFE_MODE", "BOOTLOADER"}

\* What the connected board's firmware does with the reset helper: no
\* microcontroller module, on_next_reset accepted, on_next_reset raising
\* ValueError.
Firmwares == {"micropython", "circuitpython", "circuitpython_valueerror"}

\* Captured output of a script run on the board.
ScriptOutputs == {"", "hello"}

VARIABLES
    pc,          \* position of the process in cli.py
    cmd,         \* the command being run and its arguments
    board,       \* the Pyboard session: raw-mode state and transport
    atexit,      \* TRUE once the close() hook is registered
    log,         \* calls made on the board session / filesystem layer
    out,         \* standard output, one entry per print
    err,         \* error stream, one entry per message
    exc,         \* exception propagating out of the command ("none")
    status,      \* exit status of the process, -1 while it runs
    closeCalls,  \* number of board.close() calls
    walk,        \* os.walk of put: pending directories, current one, its files
    local,       \* local folder given to put: directories and files
    remoteDirs,  \* directories on the board's filesystem
    remoteFiles  \* files uploaded to the board

vars == <<pc, cmd, board, atexit, log, out, err, exc, status,
          closeCalls, walk, local, remoteDirs, remoteFiles>>

putVars == <<walk, local, remoteDirs, remoteFiles>>

----------------------------------------------------------------------------
\* Helpers

Last(s) == s[Len(s)]

\* One recorded call: the operation, its argument, the raw-mode state it was
\* made in, how it ended ("ok" or the exception raised) and what it returned.
Entry(op, arg, res, val) ==
    [op |-> op, arg |-> arg, raw |-> board.raw, res |-> res, val |-> val]

\* A transport failure leaves the serial connection lost.
AfterCall(res) ==
    IF res = "SerialException" THEN [board EXCEPT !.transport = "lost"] ELSE board

\* Pyboard.enter_raw_repl / exit_raw_repl: the raw-mode state they leave.
EnterRawRepl(b) == [b EXCEPT !.raw = "Raw"]
ExitRawRepl(b) == [b EXCEPT !.raw = "Friendly"]

NoWalk == [stack |-> <<>>, parent |-> <<>>, todo |-> {}]
NoLocal == [dirs |-> {}, files |-> {}]

----------------------------------------------------------------------------
Init ==
    /\ pc = "start"
    /\ cmd = [name |-> "none"]
    /\ board = [raw |-> "Unknown", transport |-> "closed"]
    /\ atexit = FALSE
    /\ log = <<>>
    /\ out = <<>>
    /\ err = <<>>
    /\ exc = "none"
    /\ status = -1
    /\ closeCalls = 0
    /\ walk = NoWalk
    /\ local = NoLocal
    /\ remoteDirs = {}
    /\ remoteFiles = {}

\* cli(): create the board session and register the exit hook.  When the
\* Pyboard constructor raises, nothing is registered.
Cli ==
    /\ pc = "start"
    /\ \E res \in {"ok", "PyboardError"} :
         /\ IF res = "ok"
            THEN /\ board' = [board EXCEPT !.transport = "open"]
                 /\ atexit' = TRUE
                 /\ pc' = "dispatch"
                 /\ exc' = exc
            ELSE /\ pc' = "raised"
                 /\ exc' = res
                 /\ UNCHANGED <<board, atexit>>
    /\ UNCHANGED <<cmd, log, out, err, status, closeCalls, putVars>>

----------------------------------------------------------------------------
\* The filesystem layer (ampy.files) as the commands see it.

\* files.mkdir: an existing directory raises DirectoryExistsError unless
\* exists_okay is set.
FilesMkdir(path, exists_okay, dirs) ==
    IF path \in dirs /\ ~exists_okay THEN "DirectoryExistsError" ELSE "ok"

\* files.rmdir: a missing directory raises unless missing_okay is set.
FilesRmdir(path, missing_okay, dirs) ==
    IF path \notin dirs /\ ~missing_okay THEN "RuntimeError" ELSE "ok"

\* files.run: an unreadable local file raises IOError before anything is
\* sent; otherwise the script is submitted and its output is read only when
\* wait_for_output is set (None is returned when it is not).
FilesRun(readable, wait_for_output, output) ==
    IF ~readable THEN [res |-> "IOError", val |-> None]
    ELSE IF wait_for_output THEN [res |-> "ok", val |-> <<output>>]
    ELSE [res |-> "ok", val |-> None]

\* Failures any call on the board can end with: a lost transport, or an
\* error reported by the protocol engine / the board.
Faults == {"SerialException", "PyboardError"}

\* A command body that is one call: return when it succeeded, let the
\* exception propagate when it did not.
Finish(res) ==
    /\ pc' = IF res = "ok" THEN "returned" ELSE "raised"
    /\ exc' = IF res = "ok" THEN exc ELSE res
    /\ board' = AfterCall(res)

----------------------------------------------------------------------------
\* get: download a file; print it, or save it when a local file is given.
Get ==
    /\ pc = "dispatch"
    /\ \E local_file \in BOOLEAN, res \in {"ok", "RuntimeError"} \cup Faults :
         /\ cmd' = [name |-> "get", local_file |-> local_file]
         /\ log' = Append(log, Entry("get", <<"boot.py">>, res, ""))
         /\ out' = IF res = "ok" /\ ~local_file THEN Append(out, "contents") ELSE out
         /\ Finish(res)
    /\ UNCHANGED <<atexit, err, status, closeCalls, putVars>>

\* mkdir: create one directory on the board.
Mkdir ==
    /\ pc = "dispatch"
    /\ \E exists_okay \in BOOLEAN, dirs \in {{}, {<<"code">>}} :
       \E res \in {FilesMkdir(<<"code">>, exists_okay, dirs)} \cup Faults :
         /\ cmd' = [name |-> "mkdir", exists_okay |-> exists_okay]
         /\ log' = Append(log, Entry("mkdir", <<"code">>, res, ""))
         /\ remoteDirs' = IF res \in Faults THEN dirs ELSE dirs \cup {<<"code">>}
         /\ Finish(res)
    /\ UNCHANGED <<atexit, out, err, status, closeCalls, walk, local,
                   remoteFiles>>

\* ls: print each entry of the listing on its own line.
Ls ==
    /\ pc = "dispatch"
    /\ \E listing \in {<<>>, <<"boot.py">>, <<"boot.py", "main.py">>},
          res \in {"ok", "RuntimeError"} \cup Faults :
         /\ cmd' = [name |-> "ls"]
         /\ log' = Append(log, Entry("ls", <<"/">>, res, ""))
         /\ out' = IF res = "ok" THEN out \o listing ELSE out
         /\ Finish(res)
    /\ UNCHANGED <<atexit, err, status, closeCalls, putVars>>

\* rm: delete a file on the board.
Rm ==
    /\ pc = "dispatch"
    /\ \E res \in {"ok", "RuntimeError"} \cup Faults :
         /\ cmd' = [name |-> "rm"]
         /\ log' = Append(log, Entry("rm", <<"main.py">>, res, ""))
         /\ Finish(res)
    /\ UNCHANGED <<atexit, out, err, status, closeCalls, putVars>>

\* rmdir: delete a folder and its children on the board.
Rmdir ==
    /\ pc = "dispatch"
    /\ \E missing_okay \in BOOLEAN, dirs \in {{}, {<<"code">>}} :
       \E res \in {FilesRmdir(<<"code">>, missing_okay, dirs)} \cup Faults :
         /\ cmd' = [name |-> "rmdir", missing_okay |-> missing_okay]
         /\ log' = Append(log, Entry("rmdir", <<"code">>, res, ""))
         /\ remoteDirs' = IF res = "ok" THEN {} ELSE dirs
         /\ Finish(res)
    /\ UNCHANGED <<atexit, out, err, status, closeCalls, walk, local,
                   remoteFiles>>

----------------------------------------------------------------------------
\* put: paths are sequences of components.

\* os.path.basename(os.path.abspath(local))
Basename(path) == <<Last(path)>>

\* os.path.relpath(parent, start) for a parent at or below start: "." for
\* start itself.
Relpath(parent, start) ==
    LET rel == SubSeq(parent, Len(start) + 1, Len(parent))
    IN IF rel = <<>> THEN <<".">> ELSE rel

\* posixpath.join(a, b) for a relative b
Join(a, b) == a \o b

\* posixpath.normpath: drops the "." components
Normpath(path) == SelectSeq(path, LAMBDA c : c # ".")

\* Board path of a local directory of the walk.
RemoteParent(parent, remote) ==
    Normpath(Join(remote, Relpath(parent, LocalPath)))

\* Local folders with at most n sub-directories, as sets of directory paths.
RECURSIVE TreesUpTo(_)
TreesUpTo(n) ==
    IF n = 0 THEN {{LocalPath}}
    ELSE LET prev == TreesUpTo(n - 1)
         IN prev \cup UNION {{T \cup {Append(p, d)} : p \in T, d \in DirNames} :
                             T \in prev}

\* Files of a folder: pairs <<directory, name>>, at most MaxFiles of them.
FileSets(dirs) ==
    {F \in SUBSET (dirs \X FileNames) : Cardinality(F) <= MaxFiles}

\* Sub-directories and files a directory lists.
ChildDirs(parent) ==
    {d \in local.dirs : Len(d) = Len(parent) + 1 /\ SubSeq(d, 1, Len(parent)) = parent}
ChildFiles(parent) == {f[2] : f \in {g \in local.files : g[1] = parent}}

\* The orders in which a directory listing can come back.
Orders(S) ==
    {s \in [1..Cardinality(S) -> S] : \A i, j \in 1..Cardinality(S) : s[i] = s[j] => i = j}

\* put: a missing remote argument becomes the local base name; a folder
\* starts the walk at the folder itself, a file is copied directly.
Put ==
    /\ pc = "dispatch"
    /\ \E isdir \in BOOLEAN, arg \in {None, RemoteArg} :
       LET remote == IF arg = None THEN Basename(LocalPath) ELSE arg IN
         /\ cmd' = [name |-> "put", isdir |-> isdir, remote |-> remote]
         /\ IF isdir
            THEN \E dirs \in TreesUpTo(MaxDirs) :
                 \E files \in FileSets(dirs),
                    existing \in SUBSET {RemoteParent(d, remote) : d \in dirs} :
                   /\ local' = [dirs |-> dirs, files |-> files]
                   /\ remoteDirs' = existing
                   /\ walk' = [stack |-> <<LocalPath>>, parent |-> <<>>, todo |-> {}]
                   /\ pc' = "put_walk"
            ELSE /\ pc' = "put_file"
                 /\ UNCHANGED <<walk, local, remoteDirs>>
    /\ UNCHANGED <<board, atexit, log, out, err, exc, status, closeCalls,
                   remoteFiles>>

\* for parent, child_dirs, child_files in os.walk(local): the next directory,
\* top-down: a directory is yielded before its sub-directories are entered.
PutWalkNext ==
    /\ pc = "put_walk"
    /\ walk.stack # <<>>
    /\ LET parent == Head(walk.stack) IN
       \E order \in Orders(ChildDirs(parent)) :
         walk' = [stack |-> order \o Tail(walk.stack),
                  parent |-> parent,
                  todo |-> ChildFiles(parent)]
    /\ pc' = "put_mkdir"
    /\ UNCHANGED <<cmd, board, atexit, log, out, err, exc, status,
                   closeCalls, local, remoteDirs, remoteFiles>>

\* The walk is exhausted: put returns.
PutWalkDone ==
    /\ pc = "put_walk"
    /\ walk.stack = <<>>
    /\ pc' = "returned"
    /\ UNCHANGED <<cmd, board, atexit, log, out, err, exc, status,
                   closeCalls, putVars>>

\* PutMkdir creating the directory only when it has files to receive.
PutMkdirOnlyForFiles ==
    /\ pc = "put_mkdir"
    /\ LET remote_parent == RemoteParent(walk.parent, cmd.remote) IN
       IF walk.todo = {}
       THEN /\ pc' = "put_walk"
            /\ UNCHANGED <<log, board, remoteDirs, exc>>
       ELSE
       \E res \in {FilesMkdir(remote_parent, FALSE, remoteDirs)} \cup Faults :
         /\ log' = Append(log, Entry("mkdir", remote_parent, res, ""))
         /\ board' = AfterCall(res)
         /\ CASE res = "ok" ->
                   /\ remoteDirs' = remoteDirs \cup {remote_parent}
                   /\ pc' = "put_files"
                   /\ exc' = exc
              [] res = "DirectoryExistsError" ->
                   /\ pc' = "put_walk"
                   /\ UNCHANGED <<remoteDirs, exc>>
              [] OTHER ->
                   /\ pc' = "raised"
                   /\ exc' = res
                   /\ UNCHANGED remoteDirs
    /\ UNCHANGED <<cmd, atexit, out, err, status, closeCalls, walk, local,
                   remoteFiles>>

\* board_files.mkdir(remote_parent) inside the try: DirectoryExistsError is
\* caught by the except clause, which ends this directory's iteration.
PutMkdir ==
    /\ pc = "put_mkdir"
    /\ LET remote_parent == RemoteParent(walk.parent, cmd.remote) IN
       \E res \in {FilesMkdir(remote_parent, FALSE, remoteDirs)} \cup Faults :
         /\ log' = Append(log, Entry("mkdir", remote_parent, res, ""))
         /\ board' = AfterCall(res)
         /\ CASE res = "ok" ->
                   /\ remoteDirs' = remoteDirs \cup {remote_parent}
                   /\ pc' = "put_files"
                   /\ exc' = exc
              [] res = "DirectoryExistsError" ->
                   /\ pc' = "put_walk"
                   /\ UNCHANGED <<remoteDirs, exc>>
              [] OTHER ->
                   /\ pc' = "raised"
                   /\ exc' = res
                   /\ UNCHANGED remoteDirs
    /\ UNCHANGED <<cmd, atexit, out, err, status, closeCalls, walk, local,
                   remoteFiles>>

\* for filename in child_files: board_files.put(remote_filename, data)
PutFile ==
    /\ pc = "put_files"
    /\ walk.todo # {}
    /\ \E filename \in walk.todo, res \in {"ok"} \cup Faults :
       LET remote_filename ==
               Join(RemoteParent(walk.parent, cmd.remote), <<filename>>) IN
         /\ log' = Append(log, Entry("put", remote_filename, res, ""))
         /\ board' = AfterCall(res)
         /\ walk' = [walk EXCEPT !.todo = @ \ {filename}]
         /\ IF res = "ok"
            THEN /\ remoteFiles' = remoteFiles \cup {remote_filename}
                 /\ UNCHANGED <<pc, exc>>
            ELSE /\ pc' = "raised"
                 /\ exc' = res
                 /\ UNCHANGED remoteFiles
    /\ UNCHANGED <<cmd, atexit, out, err, status, closeCalls, local,
                   remoteDirs>>

\* All files of the directory are uploaded: on to the next directory.
PutFilesDone ==
    /\ pc = "put_files"
    /\ walk.todo = {}
    /\ pc' = "put_walk"
    /\ UNCHANGED <<cmd, board, atexit, log, out, err, exc, status,
                   closeCalls, putVars>>

\* A local file: one put of its contents.
PutSingle ==
    /\ pc = "put_file"
    /\ \E res \in {"ok"} \cup Faults :
         /\ log' = Append(log, Entry("put", cmd.remote, res, ""))
         /\ remoteFiles' = IF res = "ok" THEN {cmd.remote} ELSE remoteFiles
         /\ Finish(res)
    /\ UNCHANGED <<cmd, atexit, out, err, status, closeCalls, walk, local,
                   remoteDirs>>

----------------------------------------------------------------------------
\* run: send a local script to the board and print what it prints.

Bool(b) == IF b THEN "True" ELSE "False"

Run ==
    /\ pc = "dispatch"
    /\ \E no_output \in BOOLEAN :
         cmd' = [name |-> "run", no_output |-> no_output]
    /\ pc' = "run_call"
    /\ UNCHANGED <<board, atexit, log, out, err, exc, status, closeCalls,
                   putVars>>

\* RunCall passing the flag itself instead of its negation.
RunCallFlagNotNegated ==
    /\ pc = "run_call"
    /\ \E readable \in BOOLEAN, output \in ScriptOutputs :
       LET wait_for_output == cmd.no_output
           r == FilesRun(readable, wait_for_output, output) IN
       \E res \in {r.res} \cup (IF readable THEN Faults ELSE {}) :
         /\ log' = Append(log, Entry("run", <<"script.py", Bool(wait_for_output)>>,
                                     res, IF res = "ok" THEN r.val ELSE None))
         /\ board' = AfterCall(res)
         /\ CASE res = "ok" ->
                   /\ out' = IF r.val # None THEN Append(out, r.val[1]) ELSE out
                   /\ pc' = "returned"
                   /\ UNCHANGED <<err, exc>>
              [] res = "IOError" ->
                   /\ err' = Append(err, "Failed to find or read input file")
                   /\ pc' = "returned"
                   /\ UNCHANGED <<out, exc>>
              [] OTHER ->
                   /\ pc' = "raised"
                   /\ exc' = res
                   /\ UNCHANGED <<out, err>>
    /\ UNCHANGED <<cmd, atexit, status, closeCalls, putVars>>

\* output = board_files.run(local_file, not no_output); the output is printed
\* unless it is None; IOError is reported and the command returns.
RunCall ==
    /\ pc = "run_call"
    /\ \E readable \in BOOLEAN, output \in ScriptOutputs :
       LET wait_for_output == ~cmd.no_output
           r == FilesRun(readable, wait_for_output, output) IN
       \E res \in {r.res} \cup (IF readable THEN Faults ELSE {}) :
         /\ log' = Append(log, Entry("run", <<"script.py", Bool(wait_for_output)>>,
                                     res, IF res = "ok" THEN r.val ELSE None))
         /\ board' = AfterCall(res)
         /\ CASE res = "ok" ->
                   /\ out' = IF r.val # None THEN Append(out, r.val[1]) ELSE out
                   /\ pc' = "returned"
                   /\ UNCHANGED <<err, exc>>
              [] res = "IOError" ->
                   /\ err' = Append(err, "Failed to find or read input file")
                   /\ pc' = "returned"
                   /\ UNCHANGED <<out, exc>>
              [] OTHER ->
                   /\ pc' = "raised"
                   /\ exc' = res
                   /\ UNCHANGED <<out, err>>
    /\ UNCHANGED <<cmd, atexit, status, closeCalls, putVars>>

----------------------------------------------------------------------------
\* reset

\* The helper defined on the board: what on_next_reset(x) returns.
OnNextReset(fw, x) ==
    IF fw = "micropython"
    THEN IF x = "NORMAL" THEN "" ELSE "Reset mode only supported on CircuitPython"
    ELSE IF fw = "circuitpython_valueerror" THEN "ValueError" ELSE ""

Reset ==
    /\ pc = "dispatch"
    /\ \E mode \in Modes : cmd' = [name |-> "reset", mode |-> mode]
    /\ pc' = "reset_enter"
    /\ UNCHANGED <<board, atexit, log, out, err, exc, status, closeCalls,
                   putVars>>

\* ctx.obj.enter_raw_repl()
ResetEnterRawRepl ==
    /\ pc = "reset_enter"
    /\ \E res \in {"ok"} \cup Faults :
         /\ log' = Append(log, Entry("enter_raw_repl", <<>>, res, ""))
         /\ IF res = "ok"
            THEN /\ board' = EnterRawRepl(board)
                 /\ pc' = IF cmd.mode = "SOFT" THEN "reset_soft" ELSE "reset_define"
                 /\ exc' = exc
            ELSE /\ board' = AfterCall(res)
                 /\ pc' = "raised"
                 /\ exc' = res
    /\ UNCHANGED <<cmd, atexit, out, err, status, closeCalls, putVars>>

\* ResetSoft without the return: the command carries on after leaving raw mode.
ResetSoftNoReturn ==
    /\ pc = "reset_soft"
    /\ \E res \in {"ok", "SerialException"} :
         /\ log' = Append(log, Entry("exit_raw_repl", <<>>, res, ""))
         /\ IF res = "ok"
            THEN /\ board' = ExitRawRepl(board)
                 /\ pc' = "reset_define"
                 /\ exc' = exc
            ELSE /\ board' = AfterCall(res)
                 /\ pc' = "raised"
                 /\ exc' = res
    /\ UNCHANGED <<cmd, atexit, out, err, status, closeCalls, putVars>>

\* if mode == "SOFT": ctx.obj.exit_raw_repl(); return
ResetSoft ==
    /\ pc = "reset_soft"
    /\ \E res \in {"ok", "SerialException"} :
         /\ log' = Append(log, Entry("exit_raw_repl", <<>>, res, ""))
         /\ IF res = "ok"
            THEN /\ board' = ExitRawRepl(board)
                 /\ pc' = "returned"
                 /\ exc' = exc
            ELSE /\ board' = AfterCall(res)
                 /\ pc' = "raised"
                 /\ exc' = res
    /\ UNCHANGED <<cmd, atexit, out, err, status, closeCalls, putVars>>

\* ResetDefine with its failure swallowed: the command carries on.
ResetDefineSwallow ==
    /\ pc = "reset_define"
    /\ \E res \in {"ok"} \cup Faults :
         /\ log' = Append(log, Entry("exec_", <<"def on_next_reset, reset">>, res, ""))
         /\ board' = AfterCall(res)
         /\ pc' = "reset_eval"
         /\ exc' = exc
    /\ UNCHANGED <<cmd, atexit, out, err, status, closeCalls, putVars>>

\* ctx.obj.exec_(<definitions of on_next_reset and reset>)
ResetDefine ==
    /\ pc = "reset_define"
    /\ \E res \in {"ok"} \cup Faults :
         /\ log' = Append(log, Entry("exec_", <<"def on_next_reset, reset">>, res, ""))
         /\ board' = AfterCall(res)
         /\ pc' = IF res = "ok" THEN "reset_eval" ELSE "raised"
         /\ exc' = IF res = "ok" THEN exc ELSE res
    /\ UNCHANGED <<cmd, atexit, out, err, status, closeCalls, putVars>>

\* ResetEval without the return after the echo: reset() follows regardless.
ResetEvalNoReturn ==
    /\ pc = "reset_eval"
    /\ \E res \in {"ok"} \cup Faults, fw \in Firmwares :
       LET r == OnNextReset(fw, cmd.mode) IN
         /\ log' = Append(log, Entry("eval", <<"on_next_reset", cmd.mode>>, res,
                                     IF res = "ok" THEN r ELSE ""))
         /\ board' = AfterCall(res)
         /\ IF res = "ok"
            THEN /\ out' = Append(out, "here we are")
                 /\ err' = IF r # "" THEN Append(err, r) ELSE err
                 /\ pc' = "reset_exec"
                 /\ exc' = exc
            ELSE /\ pc' = "raised"
                 /\ exc' = res
                 /\ UNCHANGED <<out, err>>
    /\ UNCHANGED <<cmd, atexit, status, closeCalls, putVars>>

\* r = ctx.obj.eval("on_next_reset(mode)"); a non-empty r is echoed to the
\* error stream and the command returns.
ResetEval ==
    /\ pc = "reset_eval"
    /\ \E res \in {"ok"} \cup Faults, fw \in Firmwares :
       LET r == OnNextReset(fw, cmd.mode) IN
         /\ log' = Append(log, Entry("eval", <<"on_next_reset", cmd.mode>>, res,
                                     IF res = "ok" THEN r ELSE ""))
         /\ board' = AfterCall(res)
         /\ IF res = "ok"
            THEN /\ out' = Append(out, "here we are")
                 /\ err' = IF r # "" THEN Append(err, r) ELSE err
                 /\ pc' = IF r # "" THEN "returned" ELSE "reset_exec"
                 /\ exc' = exc
            ELSE /\ pc' = "raised"
                 /\ exc' = res
                 /\ UNCHANGED <<out, err>>
    /\ UNCHANGED <<cmd, atexit, status, closeCalls, putVars>>

\* ResetExec without the except clause: every failure of reset() propagates.
ResetExecNoExcept ==
    /\ pc = "reset_exec"
    /\ \E res \in {"ok"} \cup Faults :
         /\ log' = Append(log, Entry("exec_", <<"reset()">>, res, ""))
         /\ board' = AfterCall(res)
         /\ pc' = IF res = "ok" THEN "returned" ELSE "raised"
         /\ exc' = IF res = "ok" THEN exc ELSE res
    /\ UNCHANGED <<cmd, atexit, out, err, status, closeCalls, putVars>>

\* try: ctx.obj.exec_("reset()")  except SerialException: pass
ResetExec ==
    /\ pc = "reset_exec"
    /\ \E res \in {"ok"} \cup Faults :
         /\ log' = Append(log, Entry("exec_", <<"reset()">>, res, ""))
         /\ board' = AfterCall(res)
         /\ IF res \in {"ok", "SerialException"}
            THEN /\ pc' = "returned"
                 /\ exc' = exc
            ELSE /\ pc' = "raised"
                 /\ exc' = res
    /\ UNCHANGED <<cmd, atexit, out, err, status, closeCalls, putVars>>

----------------------------------------------------------------------------
\* repl: hand the board over to a terminal emulator program.

\* ampy.consts.SUPPORTED_REPL
SupportedRepl == <<"picocom", "telnet">>
Terminals == {"None", "picocom", "telnet", "screen"}

Range(s) == {s[i] : i \in 1..Len(s)}

\* The program invoked (if any), how the command ends, and whether the
\* "couldn't find a suitable terminal" help and the telnet warning are printed.
\* util.find raises FileNotFoundError for a program that is not installed.
ReplOutcome(terminal, is_telnet, installed, inv) ==
    LET found == {i \in 1..Len(SupportedRepl) : SupportedRepl[i] \in installed}
        first == CHOOSE i \in found : \A j \in found : i <= j
        nothing == [name |-> "none", res |-> "ok", help |-> TRUE, warn |-> FALSE]
        missing == [name |-> "none", res |-> "FileNotFoundError", help |-> FALSE,
                    warn |-> FALSE]
    IN  IF terminal = "None"
        THEN IF is_telnet
             THEN IF "telnet" \in installed
                  THEN [name |-> "telet", res |-> inv, help |-> FALSE, warn |-> FALSE]
                  ELSE missing
             ELSE IF found # {}
                  THEN [name |-> SupportedRepl[first], res |-> inv, help |-> FALSE,
                        warn |-> FALSE]
                  ELSE nothing
        ELSE IF terminal \in Range(SupportedRepl)
        THEN LET warn == is_telnet /\ terminal # "telnet" IN
             IF terminal \in installed
             THEN [name |-> terminal, res |-> inv, help |-> inv = "ok", warn |-> warn]
             ELSE [missing EXCEPT !.warn = warn]
        ELSE nothing

Repl ==
    /\ pc = "dispatch"
    /\ \E terminal \in Terminals, is_telnet \in BOOLEAN,
          installed \in SUBSET Range(SupportedRepl), inv \in {"ok", "OSError"} :
       LET o == ReplOutcome(terminal, is_telnet, installed, inv) IN
         /\ cmd' = [name |-> "repl", terminal |-> terminal]
         /\ log' = IF o.name # "none"
                   THEN Append(log, Entry("invoke_repl", <<o.name>>, o.res, ""))
                   ELSE log
         /\ out' = out \o (IF o.warn THEN <<"warning: use the telnet terminal">> ELSE <<>>)
                       \o (IF o.help THEN <<"Couldn't find a suitable terminal">> ELSE <<>>)
         /\ pc' = IF o.res = "ok" THEN "returned" ELSE "raised"
         /\ exc' = IF o.res = "ok" THEN exc ELSE o.res
    /\ UNCHANGED <<board, atexit, err, status, closeCalls, putVars>>

----------------------------------------------------------------------------
\* Shutdown

\* Close without the try/except: an exception of board.close() leaves the
\* hook and is reported by the interpreter.
CloseNoTry(res, errors) ==
    /\ closeCalls' = closeCalls + 1
    /\ log' = Append(log, Entry("close", <<>>, res, ""))
    /\ board' = IF res = "ok" THEN [board EXCEPT !.transport = "closed"] ELSE board
    /\ err' = IF res = "ok" THEN errors ELSE Append(errors, "Error in atexit._run_exitfuncs")

\* The registered hook: board.close() inside try/except Exception: pass.
\* `errors` is the error stream when the hook runs.
Close(res, errors) ==
    /\ closeCalls' = closeCalls + 1
    /\ log' = Append(log, Entry("close", <<>>, res, ""))
    /\ board' = IF res = "ok" THEN [board EXCEPT !.transport = "closed"] ELSE board
    /\ err' = errors

\* The process ends: an exception that left the command is printed as a
\* traceback and the status is 1, a command that returned gives status 0;
\* then the exit hook runs, if cli() registered it.  close() can raise when
\* the transport is already lost.
Exit ==
    /\ pc \in {"returned", "raised"}
    /\ LET errors == IF pc = "raised" THEN Append(err, "Traceback") ELSE err IN
       IF atexit
       THEN \E res \in {"ok"} \cup
                       (IF board.transport = "lost" THEN {"SerialException"} ELSE {}) :
              Close(res, errors)
       ELSE /\ err' = errors
            /\ UNCHANGED <<closeCalls, log, board>>
    /\ status' = IF pc = "returned" THEN 0 ELSE 1
    /\ pc' = "exited"
    /\ UNCHANGED <<cmd, atexit, out, exc, putVars>>

----------------------------------------------------------------------------
Next ==
    \/ Cli
    \/ Get
    \/ Mkdir
    \/ Ls
    \/ Put
    \/ PutWalkNext
    \/ PutWalkDone
    \/ PutMkdir
    \/ PutFile
    \/ PutFilesDone
    \/ PutSingle
    \/ Rm
    \/ Rmdir
    \/ Run
    \/ RunCall
    \/ Reset
    \/ ResetEnterRawRepl
    \/ ResetSoft
    \/ ResetDefine
    \/ ResetEval
    \/ ResetExec
    \/ Repl
    \/ Exit

Spec == Init /\ [][Next]_vars

----------------------------------------------------------------------------
\* Properties

Parent(path) == SubSeq(path, 1, Len(path) - 1)
Idx == 1..Len(log)
Ended == pc \in {"returned", "exited"}

\* Calls that send something to the board's interpreter.
Submissions == {"enter_raw_repl", "exit_raw_repl", "exec_", "eval"}
IsResetExec(e) == e.op = "exec_" /\ e.arg = <<"reset()">>
IsHelperEval(e) == e.op = "eval" /\ e.res = "ok"

\* C1: in reset, when the final exec_("reset()") raises SerialException the
\* exception is swallowed: nothing propagates, nothing is written to the
\* error stream, the command returns and the process ends with status 0.
C1_ResetDisconnectExpected ==
    \A i \in Idx :
        (IsResetExec(log[i]) /\ log[i].res = "SerialException") =>
            /\ Ended
            /\ exc = "none"
            /\ err = <<>>
            /\ pc = "exited" => status = 0

C1_Witness ==
    /\ pc = "exited"
    /\ \E i \in Idx : IsResetExec(log[i]) /\ log[i].res = "SerialException"

\* C2: once cli() has created the session, however the command ended, the
\* process calls board.close() exactly once at shutdown, as its last call,
\* and an exception of close() is reported nowhere and changes no status.
C2_CloseAtShutdown ==
    /\ closeCalls = Cardinality({i \in Idx : log[i].op = "close"})
    /\ (pc = "exited" /\ atexit) =>
           /\ closeCalls = 1
           /\ Last(log).op = "close"
           /\ \A k \in 1..Len(err) : err[k] # "Error in atexit._run_exitfuncs"
           /\ status = IF exc = "none" THEN 0 ELSE 1
    /\ pc # "exited" => closeCalls = 0

C2_Witness ==
    /\ pc = "exited"
    /\ cmd.name = "reset"
    /\ closeCalls = 1
    /\ Last(log).op = "close"
    /\ Last(log).res = "SerialException"

\* An operation error: an exception left the command, the board refused the
\* reset mode, or the script of run could not be read.
OperationError ==
    \/ exc # "none"
    \/ \E i \in Idx : IsHelperEval(log[i]) /\ log[i].val # ""
    \/ \E i \in Idx : log[i].op = "run" /\ log[i].res = "IOError"

\* C3: every operation error is reported to the error stream and ends the
\* process with a non-zero status; status zero means the operation succeeded.
C3_ErrorsExitNonZero ==
    pc = "exited" =>
        /\ OperationError => (err # <<>> /\ status # 0)
        /\ status = 0 => ~OperationError

\* C4: a reset command that returned (no exception left it) without any
\* transport failure has returned the raw-mode state to Friendly.
C4_ResetReturnsToFriendly ==
    (/\ cmd.name = "reset"
     /\ Ended
     /\ exc = "none"
     /\ \A i \in Idx : log[i].res # "SerialException") =>
        board.raw = "Friendly"

\* C5: a folder put that returned has uploaded every file of the folder and
\* of its sub-folders to remote/<relative path>/<filename>.
C5_WholeTreeUploaded ==
    (cmd.name = "put" /\ cmd.isdir /\ pc = "returned") =>
        \A f \in local.files :
            Join(RemoteParent(f[1], cmd.remote), <<f[2]>>) \in remoteFiles

\* C6: run calls files.run with wait_for_output = not no_output; with
\* --no-output nothing is read back and nothing is printed; without it the
\* captured output of a successful run is printed exactly once.
C6_RunWaitFlag ==
    cmd.name = "run" =>
        /\ \A i \in Idx : log[i].op = "run" =>
               /\ log[i].arg[2] = Bool(~cmd.no_output)
               /\ cmd.no_output => log[i].val = None
               /\ (log[i].res = "ok" /\ ~cmd.no_output) => out = <<log[i].val[1]>>
        /\ cmd.no_output => out = <<>>
        /\ Len(out) <= 1

C6_Witness ==
    /\ pc = "exited"
    /\ cmd.name = "run"
    /\ cmd.no_output
    /\ log[1].op = "run"
    /\ log[1].res = "ok"
    /\ status = 0

\* C7: in reset, a SerialException of any submission other than the final
\* exec_("reset()") propagates out of the command, and nothing is submitted
\* to the board after it.
C7_TransportErrorPropagates ==
    cmd.name = "reset" =>
        \A i \in Idx :
            (/\ log[i].op \in Submissions
             /\ log[i].res = "SerialException"
             /\ ~IsResetExec(log[i])) =>
                /\ pc \in {"raised", "exited"}
                /\ exc = "SerialException"
                /\ \A j \in Idx : j > i => log[j].op \notin Submissions
                /\ pc = "exited" => status = 1

C7_Witness ==
    /\ pc = "exited"
    /\ cmd.name = "reset"
    /\ \E i \in Idx : /\ log[i].op = "eval"
                      /\ log[i].res = "SerialException"

\* C8: reset() is submitted only right after on_next_reset(mode) was
\* evaluated and returned an empty result; a non-empty result is written to
\* the error stream and reset() is never submitted.
C8_ResetOnlyAfterEmptyReply ==
    cmd.name = "reset" =>
        /\ \A i \in Idx : IsResetExec(log[i]) =>
               /\ i > 1
               /\ IsHelperEval(log[i - 1])
               /\ log[i - 1].arg = <<"on_next_reset", cmd.mode>>
               /\ log[i - 1].val = ""
               /\ cmd.mode # "SOFT"
        /\ \A i \in Idx : (IsHelperEval(log[i]) /\ log[i].val # "") =>
               /\ \E k \in 1..Len(err) : err[k] = log[i].val
               /\ \A j \in Idx : ~IsResetExec(log[j])
               /\ Ended

C8_Witness ==
    /\ pc = "exited"
    /\ cmd.name = "reset"
    /\ \E i \in Idx : IsHelperEval(log[i]) /\ log[i].val # ""
    /\ \A j \in Idx : ~IsResetExec(log[j])

C10_SubmissionsInRaw ==
    cmd.name = "reset" =>
        /\ \A i \in Idx : log[i].op \in {"exec_", "eval"} =>
               /\ log[i].raw = "Raw"
               /\ log[1].op = "enter_raw_repl" /\ log[1].res = "ok"
               /\ \A j \in 1..(i - 1) : log[j].op # "exit_raw_repl"
               /\ cmd.mode # "SOFT"
        /\ (cmd.mode = "SOFT" /\ pc = "returned") =>
               /\ Len(log) = 2
               /\ log[1].op = "enter_raw_repl"
               /\ log[2].op = "exit_raw_repl"

C10_Witness ==
    /\ pc = "returned"
    /\ cmd.name = "reset"
    /\ cmd.mode = "SOFT"
    /\ Len(log) = 2
    /\ board.raw = "Friendly"

====
